---- MODULE Spec2Model ----
(***************************************************************************)
(* Model of pysar/objects/insarobj.py: the ifgram, ifgramStack, geometry   *)
(* and platformTrack objects, the source files they read and the HDF5      *)
(* containers they write.                                                  *)
(*                                                                         *)
(* Python values are encoded as follows.  None is the string "None" for a  *)
(* scalar and the empty tuple for a box, a dictionary or an array.  A      *)
(* dict is its sequence of [key, value] entries in insertion order.  An    *)
(* attribute that has not been assigned yet is Unset.  A numpy array is a  *)
(* record [shape, v].  Each save2h5 call is one action: the operator that  *)
(* models it returns the objects and the disk content the call leaves      *)
(* behind, on the path that returns as on the path that raises.            *)
(***************************************************************************)
EXTENDS Integers, Sequences, FiniteSets, TLC

VARIABLES
    disk,       \* the output file: [exists, groups]
    pairsDict,  \* ifgramStack.pairsDict: sequence of [key, obj] in key order
    stack,      \* the fields of the ifgramStack object
    geom,       \* the fields of the geometry object
    track,      \* the fields of the platformTrack object
    pairDict,   \* the pair collection handed to platformTrack.getPairs
    ret         \* the last call: operation, arguments, return value or error

vars == <<disk, pairsDict, stack, geom, track, pairDict, ret>>

----------------------------------------------------------------------------
(* Bounds *)

MaxPairs == 2      \* pairs in ifgramStack.pairsDict
MaxMembers == 3    \* pairs in the collection handed to platformTrack

Unset == -1        \* an attribute no statement has assigned yet
NoBox == <<>>      \* box=None
Fill == 0          \* value of a dataset element that was never written

----------------------------------------------------------------------------
(* Generic helpers: dictionaries as entry sequences, functions as maps *)

Min(a, b) == IF a < b THEN a ELSE b
Max(a, b) == IF a > b THEN a ELSE b

Keys(d) == [i \in 1..Len(d) |-> d[i].key]
HasKey(d, k) == \E i \in 1..Len(d) : d[i].key = k
Lookup(d, k) == d[CHOOSE i \in 1..Len(d) : d[i].key = k].val

EmptyMap == <<>>

\* the record of a call: the operation, its arguments (access mode, box,
\* family), the error raised ("" when it returned), the value returned, and
\* for a loop that raised the family and pair index it had reached; pre is
\* the record's processor before a get_metadata call
NoRet == [op |-> "", mode |-> "", box |-> NoBox, err |-> "", value |-> "None",
          fam |-> "", idx |-> 0, pre |-> ""]
Put(f, k, v) == [x \in (DOMAIN f) \cup {k} |-> IF x = k THEN v ELSE f[x]]

----------------------------------------------------------------------------
(* Source files and the readers of pysar.utils.readfile.  A file is        *)
(* [id, size, sidecars, ext, procAttr, bperp]: size is <<LENGTH, WIDTH>>,  *)
(* sidecars the companion extensions that exist beside it, procAttr the    *)
(* PROCESSOR attribute of its own metadata ("None" when it has none) and   *)
(* bperp <<P_BASELINE_TOP_HDR, P_BASELINE_BOTTOM_HDR>> (<<>> when the file *)
(* carries no baseline attributes).                                        *)

IfgramDatasetNames == <<"unwrapPhase", "coherence", "connectComponent">>
GeometryDatasetNames == <<"height", "incidenceAngle", "slantRangeDistance", "shadowMask">>

\* readfile.read_attribute(file): the attribute mapping of a file
ReadAttribute(file) ==
    LET base == [LENGTH |-> file.size[1], WIDTH |-> file.size[2]]
        withProc == IF file.procAttr = "None" THEN base
                    ELSE Put(base, "PROCESSOR", file.procAttr)
    IN IF file.bperp = <<>> THEN withProc
       ELSE Put(Put(withProc, "P_BASELINE_TOP_HDR", file.bperp[1]),
                "P_BASELINE_BOTTOM_HDR", file.bperp[2])

\* the pixels of a file: every pixel of every file has its own value
Raster(file) ==
    [shape |-> file.size,
     v |-> [r \in 1..file.size[1] |->
              [c \in 1..file.size[2] |-> file.id * 100 + r * 10 + c]]]

\* data[box[1]:box[3], box[0]:box[2]]: a slice stops at the array's edge
Crop(a, box) ==
    LET r0 == Min(box[2], a.shape[1])
        c0 == Min(box[1], a.shape[2])
        rows == Max(Min(box[4], a.shape[1]) - r0, 0)
        cols == Max(Min(box[3], a.shape[2]) - c0, 0)
    IN [shape |-> <<rows, cols>>,
        v |-> [r \in 1..rows |-> [c \in 1..cols |-> a.v[r0 + r][c0 + c]]]]

\* readfile.read(file, box=box): (data, metadata)
ReadFile(file, box) ==
    [data |-> IF box = NoBox THEN Raster(file) ELSE Crop(Raster(file), box),
     metadata |-> ReadAttribute(file)]

\* ut.subset_attribute(metadata, box)
SubsetAttribute(md, box) ==
    IF box = NoBox THEN md
    ELSE [md EXCEPT !.LENGTH = box[4] - box[2], !.WIDTH = box[3] - box[1]]

----------------------------------------------------------------------------
(* h5py: files, groups, datasets *)

Modes == {"w", "r+"}
AllModes == Modes \cup {"a"}

NoFile == [exists |-> FALSE, groups |-> EmptyMap]
NewGroup == [dsets |-> EmptyMap, attrs |-> EmptyMap]

\* h5py.File(name, mode)
H5Open(d, mode) ==
    CASE mode = "w" -> [err |-> "", file |-> [exists |-> TRUE, groups |-> EmptyMap]]
      [] mode = "r+" -> IF d.exists THEN [err |-> "", file |-> d]
                        ELSE [err |-> "OSError", file |-> d]
      [] OTHER -> [err |-> "",
                   file |-> IF d.exists THEN d
                            ELSE [exists |-> TRUE, groups |-> EmptyMap]]

\* the file with the group as written so far
Commit(file, name, group) == [file EXCEPT !.groups = Put(file.groups, name, group)]

\* the value an element takes when stored with the dataset's dtype
Cast(dtype, x) == IF dtype = "bool" THEN (IF x # 0 THEN 1 ELSE 0) ELSE x

\* ds[...] = data is accepted when every axis of data has the selection's
\* extent or extent 1
CanBroadcast(src, count) == \A k \in 1..2 : src[k] = 1 \/ src[k] = count[k]

\* the block written by ds[...] = data: an axis of extent 1 is repeated
Broadcast(a, count, dtype) ==
    [r \in 1..count[1] |->
       [c \in 1..count[2] |->
          Cast(dtype, a.v[IF a.shape[1] = 1 THEN 1 ELSE r]
                         [IF a.shape[2] = 1 THEN 1 ELSE c])]]

\* group.create_dataset(name, shape=(n, l, w), maxshape=(None, l, w), dtype=t)
CreateDataset3D(shape, dtype) ==
    [shape |-> shape, dtype |-> dtype,
     data |-> [i \in 1..shape[1] |->
                 [r \in 1..shape[2] |-> [c \in 1..shape[3] |-> Fill]]]]

\* group.create_dataset(name, shape=(l, w), dtype=t)
CreateDataset2D(shape, dtype) ==
    [shape |-> shape, dtype |-> dtype,
     data |-> [r \in 1..shape[1] |-> [c \in 1..shape[2] |-> Fill]]]

\* np.array(pairs, dtype=np.string_): fixed-width byte strings, as wide as
\* the longest of them
RECURSIVE MaxLen(_)
MaxLen(strs) ==
    IF strs = {} THEN 0
    ELSE LET s == CHOOSE x \in strs : TRUE
         IN Max(Len(s), MaxLen(strs \ {s}))

DateArray(pairs) ==
    [shape |-> <<Len(pairs), IF Len(pairs) = 0 THEN 0 ELSE 2>>,
     itemsize |-> MaxLen({pairs[i][j] : i \in 1..Len(pairs), j \in 1..2}),
     dtype |-> "string",
     data |-> pairs]

----------------------------------------------------------------------------
(* class ifgram.  An object is [masterDate, slaveDate, datasetDict,        *)
(* processor, platform, track, length, width, metadata, bperp], with       *)
(* override keeping the processor the constructor was given.  Every        *)
(* method returns [err, obj, value]: the error raised ("" when it          *)
(* returns), the object as the call leaves it and the value returned.      *)

\* ifgram.__init__(dates=dates, datasetDict=datasetDict, metadata=overrides)
NewIfgram(dates, datasetDict, processor) ==
    [masterDate |-> dates[1], slaveDate |-> dates[2],
     datasetDict |-> datasetDict,
     override |-> processor,
     processor |-> processor, platform |-> "None", track |-> "None",
     length |-> Unset, width |-> Unset, metadata |-> EmptyMap, bperp |-> Unset]

\* read with a family that is not registered read as a single fill value
IfgramReadOrFill(obj, family, box) ==
    IF ~HasKey(obj.datasetDict, family)
    THEN [err |-> "", obj |-> obj,
          value |-> [shape |-> <<1, 1>>, v |-> << <<Fill>> >>]]
    ELSE [err |-> "", obj |-> obj,
          value |-> ReadFile(Lookup(obj.datasetDict, family), box).data]

\* ifgram.read(family, box)
IfgramRead(obj, family, box) ==
    IF ~HasKey(obj.datasetDict, family)
    THEN [err |-> "KeyError", obj |-> obj, value |-> <<>>]
    ELSE [err |-> "", obj |-> obj,
          value |-> ReadFile(Lookup(obj.datasetDict, family), box).data]

\* ifgram.get_size()
IfgramGetSize(obj) ==
    IF ~HasKey(obj.datasetDict, IfgramDatasetNames[1])
    THEN [err |-> "KeyError", obj |-> obj, value |-> <<>>]
    ELSE LET md == ReadAttribute(Lookup(obj.datasetDict, IfgramDatasetNames[1]))
         IN [err |-> "",
             obj |-> [obj EXCEPT !.length = md.LENGTH, !.width = md.WIDTH],
             value |-> <<md.LENGTH, md.WIDTH>>]

\* ifgram.get_perp_baseline(): (top + bottom) / 2.0; the files carry
\* baselines whose sum is even, so the mean is a whole number
IfgramGetPerpBaseline(obj) ==
    IF ~HasKey(obj.datasetDict, IfgramDatasetNames[1])
    THEN [err |-> "KeyError", obj |-> obj, value |-> Unset]
    ELSE LET md == ReadAttribute(Lookup(obj.datasetDict, IfgramDatasetNames[1]))
         IN IF "P_BASELINE_TOP_HDR" \notin DOMAIN md
               \/ "P_BASELINE_BOTTOM_HDR" \notin DOMAIN md
            THEN [err |-> "KeyError", obj |-> obj, value |-> Unset]
            ELSE LET b == (md.P_BASELINE_TOP_HDR + md.P_BASELINE_BOTTOM_HDR) \div 2
                 IN [err |-> "", obj |-> [obj EXCEPT !.bperp = b], value |-> b]

\* the inference with the file's PROCESSOR attribute probed first
IfgramInferAttrFirst(processor, file, md) ==
    IF processor # "None" THEN processor
    ELSE IF "PROCESSOR" \in DOMAIN md THEN md.PROCESSOR
    ELSE IF ".xml" \in file.sidecars THEN "isce"
    ELSE IF ".rsc" \in file.sidecars THEN "roipac"
    ELSE IF ".par" \in file.sidecars THEN "gamma"
    ELSE IF file.ext = "grd" THEN "gmtsar"
    ELSE "isce"

\* the inference run on every call, whatever processor the record holds
IfgramInferEveryCall(processor, file, md) ==
    IF ".xml" \in file.sidecars THEN "isce"
    ELSE IF ".rsc" \in file.sidecars THEN "roipac"
    ELSE IF ".par" \in file.sidecars THEN "gamma"
    ELSE IF file.ext = "grd" THEN "gmtsar"
    ELSE IF "PROCESSOR" \in DOMAIN md THEN md.PROCESSOR
    ELSE "isce"

\* lines 215-229: the processor an ifgram record takes from a file
IfgramInferProcessor(processor, file, md) ==
    IF processor # "None" THEN processor
    ELSE IF ".xml" \in file.sidecars THEN "isce"
    ELSE IF ".rsc" \in file.sidecars THEN "roipac"
    ELSE IF ".par" \in file.sidecars THEN "gamma"
    ELSE IF file.ext = "grd" THEN "gmtsar"
    ELSE IF "PROCESSOR" \in DOMAIN md THEN md.PROCESSOR
    ELSE "isce"

\* ifgram.get_metadata(family)
IfgramGetMetadata(obj, family) ==
    IF ~HasKey(obj.datasetDict, family)
    THEN [err |-> "KeyError", obj |-> obj, value |-> EmptyMap]
    ELSE LET file == Lookup(obj.datasetDict, family)
             md == ReadAttribute(file)
             proc == IfgramInferProcessor(obj.processor, file, md)
             md1 == Put(md, "PROCESSOR", proc)
             md2 == IF obj.track # "None" THEN Put(md1, "TRACK", obj.track) ELSE md1
             md3 == IF obj.platform # "None" THEN Put(md2, "PLATFORM", obj.platform)
                    ELSE md2
         IN [err |-> "",
             obj |-> [obj EXCEPT !.length = md.LENGTH, !.width = md.WIDTH,
                                 !.processor = proc, !.metadata = md3],
             value |-> md3]

----------------------------------------------------------------------------
(* class ifgramStack.  The object is [name, outputFile, numIfgram, length, *)
(* width, pairs, dsNames, bperp, metadata]; pairsDict is passed beside it  *)
(* because the methods assign attributes of the ifgram objects it holds.   *)

NewStack ==
    [name |-> "ifgramStack", outputFile |-> "None", numIfgram |-> Unset,
     length |-> Unset, width |-> Unset, pairs |-> <<>>, dsNames |-> <<>>,
     bperp |-> <<>>, metadata |-> EmptyMap]

\* get_size with the no-box branch taking the width for the length
StackGetSizeWidthTwice(st, pd, box) ==
    LET st1 == [st EXCEPT !.numIfgram = Len(pd)]
    IN IF Len(pd) = 0
       THEN [err |-> "IndexError", st |-> st1, pd |-> pd, value |-> <<>>]
       ELSE LET r == IfgramGetSize(pd[1].val)
            IN IF r.err # ""
               THEN [err |-> r.err, st |-> st1, pd |-> pd, value |-> <<>>]
               ELSE LET obj == [r.obj EXCEPT !.width = r.value[2]]
                        l == IF box # NoBox THEN box[4] - box[2] ELSE obj.width
                        w == IF box # NoBox THEN box[3] - box[1] ELSE obj.width
                    IN [err |-> "",
                        st |-> [st1 EXCEPT !.length = l, !.width = w],
                        pd |-> [pd EXCEPT ![1].val = obj],
                        value |-> <<Len(pd), l, w>>]

\* get_size with the box branch taking x for the length and y for the width
StackGetSizeBoxSwapped(st, pd, box) ==
    LET st1 == [st EXCEPT !.numIfgram = Len(pd)]
    IN IF Len(pd) = 0
       THEN [err |-> "IndexError", st |-> st1, pd |-> pd, value |-> <<>>]
       ELSE LET r == IfgramGetSize(pd[1].val)
            IN IF r.err # ""
               THEN [err |-> r.err, st |-> st1, pd |-> pd, value |-> <<>>]
               ELSE LET obj == [r.obj EXCEPT !.width = r.value[2]]
                        l == IF box # NoBox THEN box[3] - box[1] ELSE obj.length
                        w == IF box # NoBox THEN box[4] - box[2] ELSE obj.width
                    IN [err |-> "",
                        st |-> [st1 EXCEPT !.length = l, !.width = w],
                        pd |-> [pd EXCEPT ![1].val = obj],
                        value |-> <<Len(pd), l, w>>]

\* ifgramStack.get_size(box): [err, st, pd, value]
StackGetSize(st, pd, box) ==
    LET st1 == [st EXCEPT !.numIfgram = Len(pd)]
    IN IF Len(pd) = 0
       THEN [err |-> "IndexError", st |-> st1, pd |-> pd, value |-> <<>>]
       ELSE LET r == IfgramGetSize(pd[1].val)
            IN IF r.err # ""
               THEN [err |-> r.err, st |-> st1, pd |-> pd, value |-> <<>>]
               ELSE LET obj == [r.obj EXCEPT !.width = r.value[2]]
                        l == IF box # NoBox THEN box[4] - box[2] ELSE obj.length
                        w == IF box # NoBox THEN box[3] - box[1] ELSE obj.width
                    IN [err |-> "",
                        st |-> [st1 EXCEPT !.length = l, !.width = w],
                        pd |-> [pd EXCEPT ![1].val = obj],
                        value |-> <<Len(pd), l, w>>]

\* lines 105-107: the element type of a family's dataset
StackDataType(dsName) == IF dsName = "connectComponent" THEN "bool" ELSE "float32"

\* lines 115-120: pairs i..numIfgram of one family.  acc is
\* [err, fam, idx, group, bperp, pd]; on an error fam and idx name the
\* family and the pair index the loop had reached.
RECURSIVE StackWritePairs(_, _, _, _)
StackWritePairs(acc, dsName, i, box) ==
    IF i > Len(acc.pd) THEN acc
    ELSE LET rd == IfgramRead(acc.pd[i].val, dsName, box)
             ds == acc.group.dsets[dsName]
             count == <<ds.shape[2], ds.shape[3]>>
         IN IF rd.err # ""
            THEN [acc EXCEPT !.err = rd.err, !.fam = dsName, !.idx = i]
            ELSE IF ~CanBroadcast(rd.value.shape, count)
            THEN [acc EXCEPT !.err = "TypeError", !.fam = dsName, !.idx = i]
            ELSE LET g1 == [acc.group EXCEPT !.dsets[dsName].data[i] =
                                               Broadcast(rd.value, count, ds.dtype)]
                     bl == IfgramGetPerpBaseline(acc.pd[i].val)
                 IN IF bl.err # ""
                    THEN [acc EXCEPT !.group = g1, !.err = bl.err,
                                     !.fam = dsName, !.idx = i]
                    ELSE StackWritePairs(
                             [acc EXCEPT !.group = g1, !.bperp[i] = bl.value,
                                         !.pd[i].val = bl.obj],
                             dsName, i + 1, box)

\* lines 103-121: families k..len(dsNames)
RECURSIVE StackWriteFamilies(_, _, _, _, _)
StackWriteFamilies(acc, dsNames, k, shape, box) ==
    IF k > Len(dsNames) \/ acc.err # "" THEN acc
    ELSE LET ds == CreateDataset3D(shape, StackDataType(dsNames[k]))
             g1 == [acc.group EXCEPT !.dsets = Put(acc.group.dsets, dsNames[k], ds)]
             done == StackWritePairs([acc EXCEPT !.group = g1], dsNames[k], 1, box)
         IN StackWriteFamilies(done, dsNames, k + 1, shape, box)

\* lines 132-139: the bperp dataset
StackWriteBperp(group, st) ==
    LET ds == IF "bperp" \notin DOMAIN group.dsets
              THEN [shape |-> <<st.numIfgram>>, dtype |-> "float32",
                    data |-> [i \in 1..st.numIfgram |-> Fill]]
              ELSE [group.dsets["bperp"] EXCEPT !.shape = <<st.numIfgram>>]
    IN [group EXCEPT !.dsets = Put(group.dsets, "bperp", [ds EXCEPT !.data = st.bperp])]

\* what a save2h5 call hands back: the disk, the objects, and the call's record
SaveOut(op, file, pd, st, mode, box, err, value, fam, idx) ==
    [disk |-> file, pd |-> pd, st |-> st,
     ret |-> [NoRet EXCEPT !.op = op, !.mode = mode, !.box = box, !.err = err,
                           !.value = value, !.fam = fam, !.idx = idx]]

\* lines 123-156 of save2h5, after the family loop ended in acc
StackFinish(op, f, st5, acc, outputFile, mode, box) ==
    IF acc.err # ""
    THEN SaveOut(op, Commit(f, st5.name, acc.group), acc.pd, st5, mode, box,
                 acc.err, "None", acc.fam, acc.idx)
    ELSE IF "date" \in DOMAIN acc.group.dsets   \* create_dataset: name already exists
    THEN SaveOut(op, Commit(f, st5.name, acc.group), acc.pd, st5, mode, box,
                 "ValueError", "None", "", 0)
    ELSE
    LET g1 == [acc.group EXCEPT !.dsets = Put(acc.group.dsets, "date", DateArray(st5.pairs))]
        g2 == StackWriteBperp(g1, st5)
    IN
    IF "dropIfgram" \in DOMAIN g2.dsets
    THEN SaveOut(op, Commit(f, st5.name, g2), acc.pd, st5, mode, box,
                 "ValueError", "None", "", 0)
    ELSE
    LET g3 == [g2 EXCEPT !.dsets = Put(g2.dsets, "dropIfgram",
                   [shape |-> <<st5.numIfgram>>, dtype |-> "bool",
                    data |-> [i \in 1..st5.numIfgram |-> TRUE]])]
        gm == IfgramGetMetadata(acc.pd[1].val, IfgramDatasetNames[1])
    IN
    IF gm.err # ""
    THEN SaveOut(op, Commit(f, st5.name, g3), acc.pd, st5, mode, box,
                 gm.err, "None", "", 0)
    ELSE
    LET md == SubsetAttribute(gm.value, box)
        g4 == [g3 EXCEPT !.attrs = md]
    IN SaveOut(op, Commit(f, st5.name, g4), [acc.pd EXCEPT ![1].val = gm.obj],
               [st5 EXCEPT !.metadata = md], mode, box, "", outputFile, "", 0)

\* ifgramStack.save2h5(outputFile, access_mode, box)
StackSave2h5(d, pd, st, outputFile, mode, box) ==
    LET op == "ifgramStack.save2h5"
        st1 == [st EXCEPT !.outputFile = outputFile]
        opened == H5Open(d, mode)
        f == opened.file
    IN
    IF opened.err # ""
    THEN SaveOut(op, d, pd, st1, mode, box, opened.err, "None", "", 0)
    ELSE IF st1.name \in DOMAIN f.groups        \* create_group: name already exists
    THEN SaveOut(op, f, pd, st1, mode, box, "ValueError", "None", "", 0)
    ELSE
    LET f1 == Commit(f, st1.name, NewGroup)
        st2 == [st1 EXCEPT !.pairs = Keys(pd)]
    IN
    IF Len(pd) = 0                              \* self.pairs[0]
    THEN SaveOut(op, f1, pd, st2, mode, box, "IndexError", "None", "", 0)
    ELSE
    LET st3 == [st2 EXCEPT !.dsNames = Keys(pd[1].val.datasetDict)]
    IN
    IF Len(st3.dsNames) = 0                     \* max([])
    THEN SaveOut(op, f1, pd, st3, mode, box, "ValueError", "None", "", 0)
    ELSE
    LET gs == StackGetSize(st3, pd, box)
    IN
    IF gs.err # ""
    THEN SaveOut(op, f1, gs.pd, gs.st, mode, box, gs.err, "None", "", 0)
    ELSE
    LET st4 == [gs.st EXCEPT !.bperp = [i \in 1..gs.st.numIfgram |-> 0]]
        shape == <<st4.numIfgram, st4.length, st4.width>>
        acc == StackWriteFamilies(
                   [err |-> "", fam |-> "", idx |-> 0, group |-> NewGroup,
                    bperp |-> st4.bperp, pd |-> gs.pd],
                   st4.dsNames, 1, shape, box)
    IN StackFinish(op, f, [st4 EXCEPT !.bperp = acc.bperp], acc, outputFile, mode, box)

----------------------------------------------------------------------------
(* class geometry.  The object is [name, processor, datasetDict,           *)
(* ifgramMetadata, metadata, length, width, outputFile, dsNames], with     *)
(* override keeping the processor the constructor was given.               *)
(* ifgramMetadata is [isNone, attrs]: ifgramMetadata=None is isNone, and   *)
(* an attribute mapping is its attrs.                                      *)

NoneArray == [shape |-> <<>>, v |-> <<>>]     \* a method returning None

NewGeometry(processor, datasetDict, ifgramMetadata) ==
    [name |-> "geometry", override |-> processor,
     processor |-> processor, datasetDict |-> datasetDict,
     ifgramMetadata |-> ifgramMetadata, metadata |-> EmptyMap,
     length |-> Unset, width |-> Unset, outputFile |-> "None", dsNames |-> <<>>]

\* ut.range_distance(metadata, dimension=2) and
\* ut.incidence_angle(metadata, dimension=2): a layer of the size the
\* metadata names, varying along the range (column) axis
UtRangeDistance(md) ==
    [shape |-> <<md.LENGTH, md.WIDTH>>,
     v |-> [r \in 1..md.LENGTH |-> [c \in 1..md.WIDTH |-> 800 + c]]]
UtIncidenceAngle(md) ==
    [shape |-> <<md.LENGTH, md.WIDTH>>,
     v |-> [r \in 1..md.LENGTH |-> [c \in 1..md.WIDTH |-> 30 + c]]]

\* the test without the first-coordinate marker
NoDerivedLayerUnlessGiven(obj) ==
    \/ obj.ifgramMetadata.isNone
    \/ DOMAIN obj.ifgramMetadata.attrs = {}

\* lines 274 and 282: not self.ifgramMetadata or 'Y_FIRST' in its keys
NoDerivedLayer(obj) ==
    \/ obj.ifgramMetadata.isNone
    \/ DOMAIN obj.ifgramMetadata.attrs = {}
    \/ "Y_FIRST" \in DOMAIN obj.ifgramMetadata.attrs

\* geometry.get_slantRangeDistance(box)
GeomGetSlantRangeDistance(obj, box) ==
    IF NoDerivedLayer(obj) THEN NoneArray
    ELSE LET data == UtRangeDistance(obj.ifgramMetadata.attrs)
         IN IF box # NoBox THEN Crop(data, box) ELSE data

\* geometry.get_incidenceAngle(box)
GeomGetIncidenceAngle(obj, box) ==
    IF NoDerivedLayer(obj) THEN NoneArray
    ELSE LET data == UtIncidenceAngle(obj.ifgramMetadata.attrs)
         IN IF box # NoBox THEN Crop(data, box) ELSE data

\* geometry.read(family, box)
GeomRead(obj, family, box) ==
    IF ~HasKey(obj.datasetDict, family)
    THEN [err |-> "KeyError", value |-> NoneArray]
    ELSE [err |-> "", value |-> ReadFile(Lookup(obj.datasetDict, family), box).data]

\* geometry.get_size(box)
GeomGetSize(obj, box) ==
    IF ~HasKey(obj.datasetDict, GeometryDatasetNames[1])
    THEN [err |-> "KeyError", value |-> <<>>]
    ELSE LET md == ReadAttribute(Lookup(obj.datasetDict, GeometryDatasetNames[1]))
         IN [err |-> "",
             value |-> IF box # NoBox THEN <<box[4] - box[2], box[3] - box[1]>>
                       ELSE <<md.LENGTH, md.WIDTH>>]

\* the inference in the pair record's order: the sidecars and the
\* extension probed before the file's PROCESSOR attribute
GeomInferSidecarFirst(processor, file, md) ==
    IF processor # "None" THEN processor
    ELSE IF ".xml" \in file.sidecars THEN "isce"
    ELSE IF ".rsc" \in file.sidecars THEN "roipac"
    ELSE IF ".par" \in file.sidecars THEN "gamma"
    ELSE IF file.ext = "grd" THEN "gmtsar"
    ELSE IF "PROCESSOR" \in DOMAIN md THEN md.PROCESSOR
    ELSE "isce"

\* lines 305-319: the processor a geometry record takes from a file
GeomInferProcessor(processor, file, md) ==
    IF processor # "None" THEN processor
    ELSE IF "PROCESSOR" \in DOMAIN md THEN md.PROCESSOR
    ELSE IF ".xml" \in file.sidecars THEN "isce"
    ELSE IF ".rsc" \in file.sidecars THEN "roipac"
    ELSE IF ".par" \in file.sidecars THEN "gamma"
    ELSE IF file.ext = "grd" THEN "gmtsar"
    ELSE "isce"

\* geometry.get_metadata(family)
GeomGetMetadata(obj, family) ==
    IF ~HasKey(obj.datasetDict, family)
    THEN [err |-> "KeyError", obj |-> obj, value |-> EmptyMap]
    ELSE LET file == Lookup(obj.datasetDict, family)
             md == ReadAttribute(file)
             proc == GeomInferProcessor(obj.processor, file, md)
             md1 == Put(md, "PROCESSOR", proc)
         IN [err |-> "",
             obj |-> [obj EXCEPT !.length = md.LENGTH, !.width = md.WIDTH,
                                 !.processor = proc, !.metadata = md1],
             value |-> md1]

\* line 360: dsName.lower().endswith('mask'), over the layer names in use
EndsWithMask(dsName) == dsName \in {"shadowMask", "waterMask", "mask"}

GeomDataType(dsName) == IF EndsWithMask(dsName) THEN "bool" ELSE "float32"

\* lines 357-366: layers k..len(dsNames).  acc is [err, fam, group].
RECURSIVE GeomWriteLayers(_, _, _, _, _)
GeomWriteLayers(acc, obj, k, shape, box) ==
    IF k > Len(obj.dsNames) \/ acc.err # "" THEN acc
    ELSE LET dsName == obj.dsNames[k]
             ds == CreateDataset2D(shape, GeomDataType(dsName))
             g1 == [acc.group EXCEPT !.dsets = Put(acc.group.dsets, dsName, ds)]
             rd == GeomRead(obj, dsName, box)
         IN IF rd.err # ""
            THEN [acc EXCEPT !.group = g1, !.err = rd.err, !.fam = dsName]
            ELSE IF ~CanBroadcast(rd.value.shape, shape)
            THEN [acc EXCEPT !.group = g1, !.err = "TypeError", !.fam = dsName]
            ELSE GeomWriteLayers(
                     [acc EXCEPT !.group = [g1 EXCEPT !.dsets[dsName].data =
                                              Broadcast(rd.value, shape, ds.dtype)]],
                     obj, k + 1, shape, box)

\* lines 377-389: a derived layer is written when no file is registered
\* for it and the getter returns an array
GeomWriteDerived(group, obj, dsName, data) ==
    IF HasKey(obj.datasetDict, dsName) \/ data = NoneArray THEN group
    ELSE [group EXCEPT !.dsets = Put(group.dsets, dsName,
              [shape |-> data.shape, dtype |-> "float32", data |-> data.v])]

GeomOut(file, obj, mode, box, err, value, fam) ==
    [disk |-> file, obj |-> obj,
     ret |-> [NoRet EXCEPT !.op = "geometry.save2h5", !.mode = mode, !.box = box,
                           !.err = err, !.value = value, !.fam = fam]]

\* lines 377-400 of save2h5, after the layer loop ended in acc
GeomFinish(f, obj, acc, outputFile, mode, box) ==
    IF acc.err # ""
    THEN GeomOut(Commit(f, obj.name, acc.group), obj, mode, box, acc.err, "None", acc.fam)
    ELSE
    LET g1 == GeomWriteDerived(acc.group, obj, "incidenceAngle",
                               GeomGetIncidenceAngle(obj, box))
        g2 == GeomWriteDerived(g1, obj, "slantRangeDistance",
                               GeomGetSlantRangeDistance(obj, box))
        gm == GeomGetMetadata(obj, GeometryDatasetNames[1])
    IN
    IF gm.err # ""
    THEN GeomOut(Commit(f, obj.name, g2), obj, mode, box, gm.err, "None", "")
    ELSE
    LET md == SubsetAttribute(gm.value, box)
    IN GeomOut(Commit(f, obj.name, [g2 EXCEPT !.attrs = md]),
               [gm.obj EXCEPT !.metadata = md], mode, box, "", outputFile, "")

\* lines 343-400 of save2h5: the write proper
GeomWrite(d, obj, outputFile, mode, box) ==
    LET obj1 == [obj EXCEPT !.outputFile = outputFile]
        opened == H5Open(d, mode)
        f == opened.file
    IN
    IF opened.err # ""
    THEN GeomOut(d, obj1, mode, box, opened.err, "None", "")
    ELSE IF obj1.name \in DOMAIN f.groups       \* create_group: name already exists
    THEN GeomOut(f, obj1, mode, box, "ValueError", "None", "")
    ELSE
    LET f1 == Commit(f, obj1.name, NewGroup)
        obj2 == [obj1 EXCEPT !.dsNames = Keys(obj.datasetDict)]
        gs == GeomGetSize(obj2, box)
    IN
    IF gs.err # ""
    THEN GeomOut(f1, obj2, mode, box, gs.err, "None", "")
    ELSE GeomFinish(f, obj2,
                    GeomWriteLayers([err |-> "", fam |-> "", group |-> NewGroup],
                                    obj2, 1, gs.value, box),
                    outputFile, mode, box)

\* save2h5 without the test for an empty datasetDict
GeomSave2h5NoGuard(d, obj, outputFile, mode, box) ==
    GeomWrite(d, obj, outputFile, mode, box)

\* geometry.save2h5(outputFile, access_mode, box)
GeomSave2h5(d, obj, outputFile, mode, box) ==
    IF Len(obj.datasetDict) = 0
    THEN GeomOut(d, obj, mode, box, "", "None", "")
    ELSE GeomWrite(d, obj, outputFile, mode, box)

----------------------------------------------------------------------------
(* class platformTrack.  The object is [pairs, numPairs, length, width];   *)
(* pairs is [isNone, items]: None until getPairs has run, then the dict    *)
(* items.  A member of the pair collection is [platform_track, length,     *)
(* width].                                                                 *)

\* the median of a list of numbers: its middle element in sorted order, or
\* the mean of the two middle ones, here rounded down to a whole number;
\* 0 stands for the nan of an empty list
Median(xs) ==
    LET n == Len(xs)
        \* the k-th smallest: the value with fewer than k values below it and
        \* at least k values not above it
        Kth(k) == CHOOSE x \in {xs[i] : i \in 1..n} :
                      /\ Cardinality({i \in 1..n : xs[i] < x}) < k
                      /\ Cardinality({i \in 1..n : xs[i] <= x}) >= k
    IN IF n = 0 THEN 0
       ELSE IF n % 2 = 1 THEN Kth((n + 1) \div 2)
       ELSE (Kth(n \div 2) + Kth(n \div 2 + 1)) \div 2

NewTrack ==
    [pairs |-> [isNone |-> TRUE, items |-> <<>>], numPairs |-> Unset,
     length |-> Unset, width |-> Unset]

RECURSIVE SelectPairs(_, _)
SelectPairs(pd, platTrack) ==
    IF Len(pd) = 0 THEN <<>>
    ELSE IF pd[1].val.platform_track = platTrack
         THEN <<pd[1]>> \o SelectPairs(Tail(pd), platTrack)
         ELSE SelectPairs(Tail(pd), platTrack)

\* platformTrack.getPairs(pairDict, platTrack)
TrackGetPairs(obj, pd, platTrack) ==
    [obj EXCEPT !.pairs = [isNone |-> FALSE, items |-> SelectPairs(pd, platTrack)]]

\* the names the module binds at import (lines 8-12) or defines (lines 17,
\* 160, 242, 404), and dataType (line 14); a call of any other bare name
\* raises NameError
ModuleNames ==
    {"os", "sys", "glob", "h5py", "np", "readfile", "ptime", "ut",
     "ifgramDatasetNames", "geometryDatasetNames", "dataType",
     "ifgramStack", "ifgram", "geometry", "platformTrack"}

\* platformTrack.getSize(): [err, obj]
TrackGetSize(obj) ==
    IF obj.pairs.isNone                         \* self.pairs.keys() on None
    THEN [err |-> "AttributeError", obj |-> obj]
    ELSE LET items == obj.pairs.items
             obj1 == [obj EXCEPT !.numPairs = Len(items)]
             length == [i \in 1..Len(items) |-> items[i].val.length]
             width == [i \in 1..Len(items) |-> items[i].val.width]
         IN IF "median" \notin ModuleNames       \* line 442: median(length)
            THEN [err |-> "NameError", obj |-> obj1]
            ELSE [err |-> "",
                  obj |-> [obj1 EXCEPT !.length = Median(length),
                                       !.width = Median(width)]]

----------------------------------------------------------------------------
(* Inputs *)

\* the pair keys of the class docstring (lines 23-26), in insertion order
AllPairs ==
    << <<"20160524", "20160530">>, <<"20160524", "20160605">>,
       <<"20160524", "20160611">>, <<"20160530", "20160605">>,
       <<"20160530", "20160611">> >>

\* box = (x0, y0, x1, y1) with x1 > x0 and y1 > y0
Boxes == { <<1, 0, 2, 2>>, <<0, 1, 2, 2>>, <<1, 0, 2, 1>> }
BoxArgs == Boxes \cup {NoBox}

OutputFile == "ifgramStack.h5"

\* what one pair of a stack is built from: the families it registers, in
\* key order, the size of its rasters, and whether its files carry the
\* perpendicular baseline attributes
PairCfgs ==
    { [fams |-> <<"unwrapPhase", "coherence">>, size |-> <<2, 2>>, hasBperp |-> TRUE],
      [fams |-> <<"unwrapPhase", "coherence">>, size |-> <<1, 2>>, hasBperp |-> TRUE],
      [fams |-> <<"unwrapPhase", "coherence">>, size |-> <<2, 2>>, hasBperp |-> FALSE],
      [fams |-> <<"unwrapPhase", "connectComponent">>, size |-> <<2, 2>>, hasBperp |-> TRUE],
      [fams |-> <<"unwrapPhase">>, size |-> <<2, 2>>, hasBperp |-> TRUE],
      [fams |-> <<"coherence">>, size |-> <<2, 2>>, hasBperp |-> TRUE],
      [fams |-> <<>>, size |-> <<2, 2>>, hasBperp |-> TRUE] }

FamilyIndex(fam) == CHOOSE k \in 1..Len(IfgramDatasetNames) : IfgramDatasetNames[k] = fam

\* the file pair i registers for a family
PairFile(i, fam, cfg) ==
    [id |-> 10 * i + FamilyIndex(fam), size |-> cfg.size,
     sidecars |-> {".rsc"}, ext |-> "unw", procAttr |-> "None",
     bperp |-> IF cfg.hasBperp THEN <<20 * i, 20 * i + 10>> ELSE <<>>]

PairEntry(i, cfg) ==
    [key |-> AllPairs[i],
     val |-> NewIfgram(AllPairs[i],
                       [k \in 1..Len(cfg.fams) |->
                          [key |-> cfg.fams[k], val |-> PairFile(i, cfg.fams[k], cfg)]],
                       "None")]

\* a container some earlier run left at the output path, holding another group
OtherGroup ==
    [dsets |-> Put(EmptyMap, "height", CreateDataset2D(<<1, 1>>, "float32")),
     attrs |-> [LENGTH |-> 1, WIDTH |-> 1, PROCESSOR |-> "isce"]]
OtherFile == [exists |-> TRUE, groups |-> Put(EmptyMap, "geometry", OtherGroup)]

----------------------------------------------------------------------------
(* Specification of the stack: one ifgramStack object over a pair mapping  *)

InitStack ==
    /\ \E n \in 0..MaxPairs : \E cfg \in [1..n -> PairCfgs] :
          pairsDict = [i \in 1..n |-> PairEntry(i, cfg[i])]
    /\ disk \in {NoFile, OtherFile}
    /\ stack = NewStack
    /\ geom = NewGeometry("None", <<>>, [isNone |-> TRUE, attrs |-> EmptyMap])
    /\ track = NewTrack
    /\ pairDict = <<>>
    /\ ret = NoRet

DoStackSave2h5 ==
    \E mode \in Modes, box \in BoxArgs :
        \E r \in {StackSave2h5(disk, pairsDict, stack, OutputFile, mode, box)} :
           /\ disk' = r.disk
           /\ pairsDict' = r.pd
           /\ stack' = r.st
           /\ ret' = r.ret
           /\ UNCHANGED <<geom, track, pairDict>>

DoStackGetSize ==
    \E box \in BoxArgs :
        \E r \in {StackGetSize(stack, pairsDict, box)} :
           /\ pairsDict' = r.pd
           /\ stack' = r.st
           /\ ret' = [NoRet EXCEPT !.op = "ifgramStack.get_size", !.box = box,
                                   !.err = r.err, !.value = r.value]
           /\ UNCHANGED <<disk, geom, track, pairDict>>

NextStack == DoStackSave2h5 \/ DoStackGetSize

SpecStack == InitStack /\ [][NextStack]_vars

----------------------------------------------------------------------------
(* Specification of the geometry container: one geometry object *)

GeomFamilyIndex(fam) ==
    CHOOSE k \in 1..Len(GeometryDatasetNames) : GeometryDatasetNames[k] = fam

\* the layer files a geometry record registers, in key order
GeomDicts ==
    { <<>>, <<"height">>, <<"height", "incidenceAngle">>,
      <<"height", "slantRangeDistance">>, <<"height", "shadowMask">>,
      <<"incidenceAngle">>,
      <<"height", "incidenceAngle", "slantRangeDistance">> }

\* the reference interferogram metadata: none, an empty mapping, a
\* radar-coordinate product, a geocoded product
IfgramMetadataChoices ==
    { [isNone |-> TRUE, attrs |-> EmptyMap],
      [isNone |-> FALSE, attrs |-> EmptyMap],
      [isNone |-> FALSE, attrs |-> [LENGTH |-> 2, WIDTH |-> 2]],
      [isNone |-> FALSE, attrs |-> [LENGTH |-> 2, WIDTH |-> 2, Y_FIRST |-> 1]] }

GeomFile(fam, size) ==
    [id |-> 50 + GeomFamilyIndex(fam), size |-> size,
     sidecars |-> {".rsc"}, ext |-> "rdr", procAttr |-> "None", bperp |-> <<>>]

GeomDict(fams, heightSize) ==
    [k \in 1..Len(fams) |->
       [key |-> fams[k],
        val |-> GeomFile(fams[k], IF fams[k] = "height" THEN heightSize ELSE <<2, 2>>)]]

InitGeom ==
    /\ \E fams \in GeomDicts, size \in {<<2, 2>>, <<1, 2>>}, md \in IfgramMetadataChoices :
          geom = NewGeometry("None", GeomDict(fams, size), md)
    /\ disk \in {NoFile, OtherFile}
    /\ pairsDict = <<>>
    /\ stack = NewStack
    /\ track = NewTrack
    /\ pairDict = <<>>
    /\ ret = NoRet

DoGeomSave2h5 ==
    \E mode \in AllModes, box \in BoxArgs :
        \E r \in {GeomSave2h5(disk, geom, "geometryRadar.h5", mode, box)} :
           /\ disk' = r.disk
           /\ geom' = r.obj
           /\ ret' = r.ret
           /\ UNCHANGED <<pairsDict, stack, track, pairDict>>

DoGeomGetIncidenceAngle ==
    \E box \in BoxArgs :
        /\ ret' = [NoRet EXCEPT !.op = "geometry.get_incidenceAngle", !.box = box,
                                !.value = GeomGetIncidenceAngle(geom, box)]
        /\ UNCHANGED <<disk, geom, pairsDict, stack, track, pairDict>>

DoGeomGetSlantRangeDistance ==
    \E box \in BoxArgs :
        /\ ret' = [NoRet EXCEPT !.op = "geometry.get_slantRangeDistance", !.box = box,
                                !.value = GeomGetSlantRangeDistance(geom, box)]
        /\ UNCHANGED <<disk, geom, pairsDict, stack, track, pairDict>>

NextGeom == DoGeomSave2h5 \/ DoGeomGetIncidenceAngle \/ DoGeomGetSlantRangeDistance

SpecGeom == InitGeom /\ [][NextGeom]_vars

----------------------------------------------------------------------------
(* Specification of processor inference: one ifgram record and one         *)
(* geometry record over the same two files                                 *)

Sidecars == {".xml", ".rsc", ".par"}

\* the file registered first: every combination of the probes
MetaFiles1 ==
    { [id |-> 1, size |-> <<2, 2>>, sidecars |-> sc, ext |-> ext,
       procAttr |-> pa, bperp |-> <<>>] :
         sc \in SUBSET Sidecars, ext \in {"unw", "grd"}, pa \in {"None", "snap"} }

\* the file registered second
MetaFiles2 ==
    { [id |-> 2, size |-> <<2, 2>>, sidecars |-> sc, ext |-> "cor",
       procAttr |-> pa, bperp |-> <<>>] :
         sc \in {{}, {".xml"}, {".rsc"}, {".par"}}, pa \in {"None", "snap"} }

InitMeta ==
    /\ \E f1 \in MetaFiles1, f2 \in MetaFiles2, proc \in {"None", "gamma"} :
          /\ pairsDict =
                << [key |-> AllPairs[1],
                    val |-> NewIfgram(AllPairs[1],
                                <<[key |-> "unwrapPhase", val |-> f1],
                                  [key |-> "coherence", val |-> f2]>>, proc)] >>
          /\ geom = NewGeometry(proc,
                                <<[key |-> "height", val |-> f1],
                                  [key |-> "incidenceAngle", val |-> f2]>>,
                                [isNone |-> TRUE, attrs |-> EmptyMap])
    /\ disk = NoFile
    /\ stack = NewStack
    /\ track = NewTrack
    /\ pairDict = <<>>
    /\ ret = NoRet

DoIfgramGetMetadata ==
    \E family \in {"unwrapPhase", "coherence", "connectComponent"} :
        \E r \in {IfgramGetMetadata(pairsDict[1].val, family)} :
           /\ pairsDict' = [pairsDict EXCEPT ![1].val = r.obj]
           /\ ret' = [NoRet EXCEPT !.op = "ifgram.get_metadata", !.fam = family,
                                   !.err = r.err, !.value = r.value,
                                   !.pre = pairsDict[1].val.processor]
           /\ UNCHANGED <<disk, stack, geom, track, pairDict>>

DoGeomGetMetadata ==
    \E family \in {"height", "incidenceAngle", "shadowMask"} :
        \E r \in {GeomGetMetadata(geom, family)} :
           /\ geom' = r.obj
           /\ ret' = [NoRet EXCEPT !.op = "geometry.get_metadata", !.fam = family,
                                   !.err = r.err, !.value = r.value,
                                   !.pre = geom.processor]
           /\ UNCHANGED <<disk, stack, pairsDict, track, pairDict>>

NextMeta == DoIfgramGetMetadata \/ DoGeomGetMetadata

SpecMeta == InitMeta /\ [][NextMeta]_vars

----------------------------------------------------------------------------
(* Specification of the platform/track group: one platformTrack object     *)

PlatTracks == {"SenAT", "SenDT"}
Members ==
    [platform_track : PlatTracks, length : {100, 101}, width : {100, 101}]

InitTrack ==
    /\ \E n \in 1..MaxMembers : \E m \in [1..n -> Members] :
          pairDict = [i \in 1..n |-> [key |-> AllPairs[i], val |-> m[i]]]
    /\ track = NewTrack
    /\ disk = NoFile
    /\ pairsDict = <<>>
    /\ stack = NewStack
    /\ geom = NewGeometry("None", <<>>, [isNone |-> TRUE, attrs |-> EmptyMap])
    /\ ret = NoRet

DoTrackGetPairs ==
    \E platTrack \in PlatTracks :
        /\ track' = TrackGetPairs(track, pairDict, platTrack)
        /\ ret' = [NoRet EXCEPT !.op = "platformTrack.getPairs", !.fam = platTrack]
        /\ UNCHANGED <<disk, pairsDict, stack, geom, pairDict>>

DoTrackGetSize ==
    \E r \in {TrackGetSize(track)} :
        /\ track' = r.obj
        /\ ret' = [NoRet EXCEPT !.op = "platformTrack.getSize", !.err = r.err]
        /\ UNCHANGED <<disk, pairsDict, stack, geom, pairDict>>

NextTrack == DoTrackGetPairs \/ DoTrackGetSize

SpecTrack == InitTrack /\ [][NextTrack]_vars

----------------------------------------------------------------------------
(* Properties of the stack container *)

StackSaved == ret.op = "ifgramStack.save2h5" /\ ret.err = ""
StackGroup == disk.groups["ifgramStack"]

\* the pair-indexed bookkeeping datasets; every other dataset of the stack
\* group is the dataset of a family
Bookkeeping == {"date", "bperp", "dropIfgram"}
FamilyDatasets == DOMAIN StackGroup.dsets \ Bookkeeping

\* the sizes of the rasters the pairs register
RasterSizes ==
    UNION { { pairsDict[i].val.datasetDict[k].val.size :
                k \in 1..Len(pairsDict[i].val.datasetDict) } :
            i \in 1..Len(pairsDict) }

\* the rows of a date dataset are the pairs' keys, two 8-character strings each
DateRowsOf(ds, pd) ==
    /\ ds.shape = <<Len(pd), 2>>
    /\ Len(ds.data) = Len(pd)
    /\ ds.itemsize = 8
    /\ \A i \in 1..Len(pd) :
          /\ ds.data[i] = pd[i].key
          /\ Len(ds.data[i]) = 2
          /\ Len(ds.data[i][1]) = 8 /\ Len(ds.data[i][2]) = 8

\* a 3-D dataset has the shape <<n, l, w>> and holds that many elements
HasShape3D(ds, n, l, w) ==
    /\ ds.shape = <<n, l, w>>
    /\ Len(ds.data) = n
    /\ \A i \in 1..n : /\ Len(ds.data[i]) = l
                       /\ \A r \in 1..l : Len(ds.data[i][r]) = w

\* C1: after a save2h5 call that returned, made with no box over N >= 1
\* pairs whose rasters all have one size (length, width), every family
\* dataset of the stack group has shape (N, length, width) and the date
\* dataset has N rows, row i holding the two 8-character dates of pair i.
C1_StackShape ==
    (StackSaved /\ ret.box = NoBox /\ Len(pairsDict) >= 1
       /\ Cardinality(RasterSizes) = 1)
    => LET size == CHOOSE x \in RasterSizes : TRUE
       IN /\ \A name \in FamilyDatasets :
                HasShape3D(StackGroup.dsets[name], Len(pairsDict), size[1], size[2])
          /\ FamilyDatasets # {}
          /\ DateRowsOf(StackGroup.dsets["date"], pairsDict)

\* C1 witness: a returned call with no box over two pairs of 1 x 2 rasters
C1_Witness ==
    /\ StackSaved /\ ret.box = NoBox /\ Len(pairsDict) = 2
    /\ RasterSizes = {<<1, 2>>}
    /\ Cardinality(FamilyDatasets) = 2

\* the element (r, c) of the box in a pair's raster, as the dataset stores it
BoxPixelWritten(ds, i, file, box, r, c) ==
    /\ box[2] + r <= file.size[1]
    /\ box[1] + c <= file.size[2]
    /\ ds.data[i][r][c] = Cast(ds.dtype, Raster(file).v[box[2] + r][box[1] + c])

\* slice i of a family dataset is the box submatrix of the file
BoxSliceWritten(ds, i, file, box) ==
    \A r \in 1..(box[4] - box[2]), c \in 1..(box[3] - box[1]) :
        BoxPixelWritten(ds, i, file, box, r, c)

\* get_size(box) and save2h5(box=box) take the size from the box
BoxSizeUsed ==
    /\ (ret.op = "ifgramStack.get_size" /\ ret.err = "" /\ ret.box # NoBox)
       => /\ ret.value = <<Len(pairsDict), ret.box[4] - ret.box[2], ret.box[3] - ret.box[1]>>
          /\ stack.length = ret.box[4] - ret.box[2]
          /\ stack.width = ret.box[3] - ret.box[1]
    /\ (StackSaved /\ ret.box # NoBox)
       => /\ stack.length = ret.box[4] - ret.box[2]
          /\ stack.width = ret.box[3] - ret.box[1]
          /\ \A name \in FamilyDatasets :
                HasShape3D(StackGroup.dsets[name], Len(pairsDict),
                           ret.box[4] - ret.box[2], ret.box[3] - ret.box[1])

BoxInside(box, file) == box[4] <= file.size[1] /\ box[3] <= file.size[2]

C3_Original ==
    [][ (StackSaved /\ ret'.op = "ifgramStack.save2h5" /\ ret'.mode = "r+")
        => /\ ret'.err = ""
           /\ ret'.value = OutputFile
           /\ disk'.groups["ifgramStack"].dsets["date"].shape[1] = Len(pairsDict)
           /\ disk'.groups["ifgramStack"].dsets["bperp"].shape = <<Len(pairsDict)>>
           /\ \A g \in DOMAIN disk.groups \ {"ifgramStack"} :
                 g \in DOMAIN disk'.groups /\ disk'.groups[g] = disk.groups[g] ]_vars

\* C4 as stated: when a pair's read or attribute lookup raises inside
\* save2h5, the error reaches the caller and the output file is left as it
\* was before the call, holding nothing the aborted call wrote.
C4_Original ==
    [][ (ret'.op = "ifgramStack.save2h5" /\ ret'.err = "KeyError" /\ ret'.idx >= 1)
        => /\ ret'.value = "None"
           /\ disk' = disk ]_vars

\* the positions the family loop visits before it reaches family k, pair i
LoopBefore(k, i) ==
    { <<k2, i2>> \in (1..Len(stack.dsNames)) \X (1..Len(pairsDict)) :
        k2 < k \/ (k2 = k /\ i2 < i) }

\* slice i of a dataset was written: none of its elements is the fill value
SliceWritten(ds, i) ==
    \A r \in 1..ds.shape[2], c \in 1..ds.shape[3] : ds.data[i][r][c] # Fill

\* C10: the families written are those of the first pair, in its key
\* order; a call that returns the output path has written the slice of
\* every pair for every one of them, so a call over a mapping in which some
\* pair lacks one of them raises; and when the read of family k for pair i
\* raises KeyError, every pair was registered for every position the loop
\* visited before, while pair i does not register family k.
C10_FamiliesOfFirstPair ==
    /\ (ret.op = "ifgramStack.save2h5" /\ stack.dsNames # <<>>)
       => stack.dsNames = Keys(pairsDict[1].val.datasetDict)
    /\ StackSaved
       => /\ FamilyDatasets = {stack.dsNames[k] : k \in 1..Len(stack.dsNames)}
          /\ \A k \in 1..Len(stack.dsNames), i \in 1..Len(pairsDict) :
                /\ HasKey(pairsDict[i].val.datasetDict, stack.dsNames[k])
                /\ SliceWritten(StackGroup.dsets[stack.dsNames[k]], i)
    /\ (ret.op = "ifgramStack.save2h5" /\ Len(pairsDict) >= 1
          /\ \E i \in 1..Len(pairsDict), k \in 1..Len(pairsDict[1].val.datasetDict) :
                ~HasKey(pairsDict[i].val.datasetDict, pairsDict[1].val.datasetDict[k].key))
       => ret.err # "" /\ ret.value = "None"
    /\ (ret.op = "ifgramStack.save2h5" /\ ret.err = "KeyError" /\ ret.idx >= 1
          /\ ~HasKey(pairsDict[ret.idx].val.datasetDict, ret.fam))
       => LET k == CHOOSE k \in 1..Len(stack.dsNames) : stack.dsNames[k] = ret.fam
          IN /\ \A pos \in LoopBefore(k, ret.idx) :
                   /\ HasKey(pairsDict[pos[2]].val.datasetDict, stack.dsNames[pos[1]])
                   /\ SliceWritten(StackGroup.dsets[stack.dsNames[pos[1]]], pos[2])
             /\ ~SliceWritten(StackGroup.dsets[ret.fam], ret.idx)

\* C10 witness: the first pair registers unwrapPhase and coherence, the
\* second only unwrapPhase, and the call raised KeyError at coherence for
\* the second pair
C10_Witness ==
    /\ ret.op = "ifgramStack.save2h5" /\ ret.err = "KeyError"
    /\ Len(pairsDict) = 2
    /\ Keys(pairsDict[1].val.datasetDict) = <<"unwrapPhase", "coherence">>
    /\ Keys(pairsDict[2].val.datasetDict) = <<"unwrapPhase">>
    /\ ret.fam = "coherence" /\ ret.idx = 2

\* row i of the bookkeeping datasets is about pair i of the mapping: its
\* key in 'date', the mean of the two baselines of its reference file in
\* 'bperp', true in 'dropIfgram'
BookkeepingRowAligned(i) ==
    LET p == pairsDict[i]
        hdr == Lookup(p.val.datasetDict, IfgramDatasetNames[1]).bperp
    IN /\ StackGroup.dsets["date"].data[i] = p.key
       /\ StackGroup.dsets["date"].data[i] = <<p.val.masterDate, p.val.slaveDate>>
       /\ 2 * StackGroup.dsets["bperp"].data[i] = hdr[1] + hdr[2]
       /\ StackGroup.dsets["dropIfgram"].data[i] = TRUE

\* slice i of a family dataset holds the values of pair i's raster
SliceIsRaster(name, i) ==
    StackGroup.dsets[name].data[i]
        = Raster(Lookup(pairsDict[i].val.datasetDict, name)).v

\* C11 as stated, for a call made with no box over pairs whose rasters all
\* have one size: after a save2h5 call that returned, for every index i
\* with p the i-th key of the pair mapping, 'date'[i] is p's dates,
\* 'bperp'[i] the mean of p's top and bottom baseline, 'dropIfgram'[i] is
\* true and slice i of every family dataset is p's raster for that family.
C11_Original ==
    (StackSaved /\ ret.box = NoBox /\ Cardinality(RasterSizes) = 1)
    => /\ StackGroup.dsets["bperp"].shape = <<Len(pairsDict)>>
       /\ StackGroup.dsets["dropIfgram"].shape = <<Len(pairsDict)>>
       /\ \A i \in 1..Len(pairsDict) :
             /\ BookkeepingRowAligned(i)
             /\ \A name \in FamilyDatasets : SliceIsRaster(name, i)

----------------------------------------------------------------------------
(* Properties of processor inference *)

\* the probes of the pair record in order, each with its label
IfgramProbes(pre, file) ==
    << <<pre # "None", pre>>,
       <<".xml" \in file.sidecars, "isce">>,
       <<".rsc" \in file.sidecars, "roipac">>,
       <<".par" \in file.sidecars, "gamma">>,
       <<file.ext = "grd", "gmtsar">>,
       <<file.procAttr # "None", file.procAttr>>,
       <<TRUE, "isce">> >>

\* the label of the first probe that matches
FirstMatch(probes) ==
    probes[CHOOSE i \in 1..Len(probes) :
              probes[i][1] /\ \A j \in 1..(i - 1) : ~probes[j][1]][2]

IfgramMetadataRead == ret.op = "ifgram.get_metadata" /\ ret.err = ""
GeomMetadataRead == ret.op = "geometry.get_metadata" /\ ret.err = ""

\* C5: after ifgram.get_metadata(family) returns, the record's processor is
\* the label of the first matching probe of the chain: processor already
\* set, '.xml' sidecar, '.rsc' sidecar, '.par' sidecar, extension 'grd',
\* PROCESSOR attribute of the file, default 'isce'; and the attribute set
\* returned carries that value as PROCESSOR.
C5_ProcessorChain ==
    IfgramMetadataRead
    => LET obj == pairsDict[1].val
           expected == FirstMatch(IfgramProbes(ret.pre, Lookup(obj.datasetDict, ret.fam)))
       IN /\ obj.processor = expected
          /\ ret.value.PROCESSOR = expected
          /\ obj.metadata.PROCESSOR = expected

\* C5 witness: no processor set, a file with '.rsc' and '.par' sidecars,
\* extension 'grd' and a PROCESSOR attribute: the '.rsc' probe wins
C5_Witness ==
    /\ IfgramMetadataRead /\ ret.pre = "None" /\ ret.fam = "unwrapPhase"
    /\ LET file == Lookup(pairsDict[1].val.datasetDict, "unwrapPhase")
       IN /\ file.sidecars = {".rsc", ".par"}
          /\ file.ext = "grd"
          /\ file.procAttr = "snap"
    /\ ret.value.PROCESSOR = "roipac"

\* the fixed label of a sidecar probe
ProbeLabel(sidecar) ==
    CASE sidecar = ".xml" -> "isce"
      [] sidecar = ".rsc" -> "roipac"
      [] sidecar = ".par" -> "gamma"

\* the file matches exactly one probe of the chain, and it is a sidecar
OneProbe(file) ==
    /\ Cardinality(file.sidecars) = 1
    /\ file.ext # "grd"
    /\ file.procAttr = "None"
TheSidecar(file) == CHOOSE x \in file.sidecars : TRUE

\* C6 as stated: on a record built with no processor, get_metadata for a
\* file that matches exactly one probe, a sidecar, reports that sidecar's
\* label, whatever calls were made on the record before.
C6_Original ==
    /\ (IfgramMetadataRead /\ pairsDict[1].val.override = "None"
          /\ OneProbe(Lookup(pairsDict[1].val.datasetDict, ret.fam)))
       => ret.value.PROCESSOR =
             ProbeLabel(TheSidecar(Lookup(pairsDict[1].val.datasetDict, ret.fam)))
    /\ (GeomMetadataRead /\ geom.override = "None"
          /\ OneProbe(Lookup(geom.datasetDict, ret.fam)))
       => ret.value.PROCESSOR = ProbeLabel(TheSidecar(Lookup(geom.datasetDict, ret.fam)))

\* C6 amended: a get_metadata call made while the record's processor is
\* still unset, for a file that matches exactly one probe, a sidecar,
\* reports that sidecar's label; a call made once the processor is set
\* reports the processor the record already holds, whatever the file.
C6_FirstCallDecides ==
    /\ (IfgramMetadataRead /\ ret.pre = "None"
          /\ OneProbe(Lookup(pairsDict[1].val.datasetDict, ret.fam)))
       => ret.value.PROCESSOR =
             ProbeLabel(TheSidecar(Lookup(pairsDict[1].val.datasetDict, ret.fam)))
    /\ (GeomMetadataRead /\ ret.pre = "None"
          /\ OneProbe(Lookup(geom.datasetDict, ret.fam)))
       => ret.value.PROCESSOR = ProbeLabel(TheSidecar(Lookup(geom.datasetDict, ret.fam)))
    /\ ((IfgramMetadataRead \/ GeomMetadataRead) /\ ret.pre # "None")
       => ret.value.PROCESSOR = ret.pre

\* C6 witness: a record built with no processor was asked first for a file
\* with an '.xml' sidecar and then for a file whose only sidecar is '.rsc',
\* and reports isce for it
C6_Witness ==
    /\ IfgramMetadataRead /\ pairsDict[1].val.override = "None"
    /\ ret.fam = "coherence" /\ ret.pre = "isce"
    /\ Lookup(pairsDict[1].val.datasetDict, "coherence").sidecars = {".rsc"}
    /\ OneProbe(Lookup(pairsDict[1].val.datasetDict, "coherence"))
    /\ ".xml" \in Lookup(pairsDict[1].val.datasetDict, "unwrapPhase").sidecars
    /\ ret.value.PROCESSOR = "isce"

----------------------------------------------------------------------------
(* Properties of the geometry container *)

GeomSaved == ret.op = "geometry.save2h5" /\ ret.err = "" /\ ret.value # "None"

\* the reference metadata is absent or carries the first-coordinate marker
GeocodedOrAbsent ==
    \/ geom.ifgramMetadata.isNone
    \/ "Y_FIRST" \in DOMAIN geom.ifgramMetadata.attrs

DerivedLayers == {"incidenceAngle", "slantRangeDistance"}

\* C7: with reference metadata that is absent or carries Y_FIRST,
\* get_incidenceAngle and get_slantRangeDistance return None for every
\* box, and a save2h5 call that wrote the geometry group has written an
\* incidenceAngle or slantRangeDistance dataset only for a layer that
\* datasetDict registers.
C7_DerivedLayerSkip ==
    GeocodedOrAbsent
    => /\ ret.op \in {"geometry.get_incidenceAngle", "geometry.get_slantRangeDistance"}
          => ret.value = NoneArray
       /\ GeomSaved
          => \A name \in DerivedLayers :
                name \in DOMAIN disk.groups["geometry"].dsets
                => HasKey(geom.datasetDict, name)

\* C7 witness: a geocoded reference, incidenceAngle registered as a file:
\* the container holds incidenceAngle and no slantRangeDistance
C7_Witness ==
    /\ GeomSaved
    /\ "Y_FIRST" \in DOMAIN geom.ifgramMetadata.attrs
    /\ HasKey(geom.datasetDict, "incidenceAngle")
    /\ "incidenceAngle" \in DOMAIN disk.groups["geometry"].dsets
    /\ "slantRangeDistance" \notin DOMAIN disk.groups["geometry"].dsets

\* C8: a save2h5 call on a geometry record with an empty datasetDict
\* returns None, raises nothing and leaves the output file as it was, for
\* every access mode and box.
C8_EmptyRecordNoOp ==
    [][ (ret'.op = "geometry.save2h5" /\ Len(geom.datasetDict) = 0)
        => /\ ret'.value = "None"
           /\ ret'.err = ""
           /\ disk' = disk
           /\ geom' = geom ]_vars

\* C8 witness: the call in mode 'w' on an empty record, with the container
\* another run left at the path still in place
C8_Witness ==
    /\ ret.op = "geometry.save2h5" /\ ret.mode = "w"
    /\ Len(geom.datasetDict) = 0
    /\ ret.value = "None" /\ ret.err = ""
    /\ disk = OtherFile

----------------------------------------------------------------------------
(* Properties of the platform/track group *)

\* C9 as stated: getSize on a group whose pairs are set returns without
\* raising and leaves the group's length and width at the medians of the
\* members' lengths and widths.
C9_Original ==
    (ret.op = "platformTrack.getSize" /\ ~track.pairs.isNone)
    => LET items == track.pairs.items
       IN /\ ret.err = ""
          /\ track.length = Median([i \in 1..Len(items) |-> items[i].val.length])
          /\ track.width = Median([i \in 1..Len(items) |-> items[i].val.width])

----------------------------------------------------------------------------
(* Properties of the geometry record's processor inference *)

\* the probes of the geometry record in order, each with its label
GeomProbes(pre, file) ==
    << <<pre # "None", pre>>,
       <<file.procAttr # "None", file.procAttr>>,
       <<".xml" \in file.sidecars, "isce">>,
       <<".rsc" \in file.sidecars, "roipac">>,
       <<".par" \in file.sidecars, "gamma">>,
       <<file.ext = "grd", "gmtsar">>,
       <<TRUE, "isce">> >>

\* C12: after geometry.get_metadata(family) returns on a record whose
\* processor was unset, the processor is the file's PROCESSOR attribute
\* when it has one, whatever sidecars exist, else the label of the first of
\* the '.xml' (isce), '.rsc' (roipac), '.par' (gamma) sidecars that exists,
\* else 'gmtsar' for the extension 'grd', else 'isce'; the attribute set
\* returned carries it as PROCESSOR; and a processor given at construction
\* is the record's processor in every state and the PROCESSOR of every
\* attribute set returned.
C12_GeomProcessorChain ==
    /\ GeomMetadataRead
       => LET file == Lookup(geom.datasetDict, ret.fam)
              expected == FirstMatch(GeomProbes(ret.pre, file))
          IN /\ geom.processor = expected
             /\ ret.value.PROCESSOR = expected
             /\ geom.metadata.PROCESSOR = expected
             /\ (ret.pre = "None" /\ file.procAttr # "None")
                => geom.processor = file.procAttr
    /\ geom.override # "None"
       => /\ geom.processor = geom.override
          /\ GeomMetadataRead => ret.value.PROCESSOR = geom.override

\* C12 witness: no processor set, a file with '.rsc' and '.par' sidecars,
\* extension 'grd' and the PROCESSOR attribute 'snap': the attribute wins,
\* where the pair record takes 'roipac' from the same file
C12_Witness ==
    /\ GeomMetadataRead /\ ret.pre = "None" /\ ret.fam = "height"
    /\ geom.override = "None"
    /\ LET file == Lookup(geom.datasetDict, "height")
       IN /\ file.sidecars = {".rsc", ".par"}
          /\ file.ext = "grd"
          /\ file.procAttr = "snap"
          /\ IfgramInferProcessor("None", file, ReadAttribute(file)) = "roipac"
    /\ ret.value.PROCESSOR = "snap"
    /\ geom.processor = "snap"

====
